---- MODULE Spec2Model ----
(***************************************************************************)
(* Model of m2uHelper.h: identity and name reconciliation of level actors  *)
(* (RenameActor, GetFreeName, AddNewActorFromAsset) and the transform text *)
(* decoder (SetActorTransformRelativeFromText).                            *)
(*                                                                         *)
(* Strings are sequences of one-character strings.  An FName is a record  *)
(* [base, cmp, num]: base is the text as written (the display index), cmp  *)
(* its lower-case form (the comparison index), and num the engine's        *)
(* internal number: 0 means "no suffix" and n+1 means the suffix "_n".     *)
(***************************************************************************)
EXTENDS Integers, Sequences, FiniteSets

\* ------------------------------------------------------------------ bounds
MaxActors == 2

Ids == 1..MaxActors

Clients == {"c1", "c2"}

\* ----------------------------------------------------------------- strings
Digits == <<"0", "1", "2", "3", "4", "5", "6", "7", "8", "9">>

IsDigit(c) == \E i \in 1..10 : Digits[i] = c

DigitVal(c) == (CHOOSE i \in 1..10 : Digits[i] = c) - 1

Upper == <<"A", "B", "C", "D", "E", "F", "G", "H", "I", "J", "K", "L", "M",
           "N", "O", "P", "Q", "R", "S", "T", "U", "V", "W", "X", "Y", "Z">>

Lower == <<"a", "b", "c", "d", "e", "f", "g", "h", "i", "j", "k", "l", "m",
           "n", "o", "p", "q", "r", "s", "t", "u", "v", "w", "x", "y", "z">>

LowerOf == [c \in {Upper[i] : i \in 1..26} |-> Lower[CHOOSE i \in 1..26 : Upper[i] = c]]

ToLowerChar(c) == IF c \in DOMAIN LowerOf THEN LowerOf[c] ELSE c

ToLower(s) == [i \in 1..Len(s) |-> ToLowerChar(s[i])]

RECURSIVE IntToString(_)
IntToString(n) ==
    IF n < 10 THEN <<Digits[n + 1]>>
    ELSE IntToString(n \div 10) \o <<Digits[(n % 10) + 1]>>

RECURSIVE Atoi(_)
Atoi(s) ==
    IF s = <<>> THEN 0
    ELSE 10 * Atoi(SubSeq(s, 1, Len(s) - 1)) + DigitVal(s[Len(s)])

\* ------------------------------------------------------------------ FName
NoFName == [base |-> <<>>, cmp |-> <<>>, num |-> -1]

\* an entry of the name table: the text, its comparison form and the number
NameEntry(s, k) == [base |-> s, cmp |-> ToLower(s), num |-> k]

NAME_None == NameEntry(<<"N", "o", "n", "e">>, 0)

M2U_GENERATED_NAME ==
    <<"m", "2", "u", "G", "e", "n", "e", "r", "a", "t", "e", "d", "N", "a", "m", "e">>

\* FName( *M2U_GENERATED_NAME )
M2U_GENERATED_FNAME == NameEntry(M2U_GENERATED_NAME, 0)

\* index of the character the engine's split scan stops at: it walks back
\* over digits from the last character and never looks before the first one
RECURSIVE SplitScan(_, _)
SplitScan(s, i) ==
    IF IsDigit(s[i]) /\ i > 1 THEN SplitScan(s, i - 1) ELSE i

\* FName(const TCHAR*): split a trailing "_<number>" off the name unless the
\* number has a leading zero; an empty name is NAME_None
ParseFName(s) ==
    IF s = <<>> THEN NAME_None
    ELSE IF ~IsDigit(s[Len(s)]) THEN NameEntry(s, 0)
    ELSE LET ch == SplitScan(s, Len(s))
         IN IF s[ch] = "_" /\ (s[ch + 1] # "0" \/ Len(s) - ch = 1)
            THEN IF ch = 1 THEN NAME_None
                 ELSE NameEntry(SubSeq(s, 1, ch - 1),
                                Atoi(SubSeq(s, ch + 1, Len(s))) + 1)
            ELSE NameEntry(s, 0)

\* FName::ToString
ToString(n) ==
    IF n.num = 0 THEN n.base ELSE n.base \o <<"_">> \o IntToString(n.num - 1)

\* FName::operator== compares case-insensitively
FNameEq(a, b) == a.cmp = b.cmp /\ a.num = b.num

GetNumber(n) == n.num

SetNumber(n, k) == [n EXCEPT !.num = k]

\* ----------------------------------------------------------------- inputs
\* candidate names a caller passes: only forbidden characters, a plain name,
\* a numbered name with a forbidden character inside, and the host's "None"
\* in lower case with a forbidden character inside
Candidates ==
    { <<"#">>,
      <<"a">>,
      <<"a", "#", "_", "0">>,
      <<"n", "#", "o", "n", "e">> }

\* ------------------------------------------------------------ sanitizing
\* the engine's table of forbidden characters; the grave accent, which the
\* lexer cannot hold in a string, is written "grave"
INVALID_OBJECTNAME_CHARACTERS ==
    <<"\"", "'", " ", ",", "/", ".", ":", "|", "&", "!", "~", "\n", "\r", "\t",
      "@", "#", "(", ")", "{", "}", "[", "]", "=", ";", "^", "%", "$", "grave">>

ReplaceInline(s, c) == SelectSeq(s, LAMBDA x : x # c)

RECURSIVE StripInvalid(_, _)
StripInvalid(s, BadCharacterIndex) ==
    IF BadCharacterIndex > Len(INVALID_OBJECTNAME_CHARACTERS) THEN s
    ELSE StripInvalid(ReplaceInline(s, INVALID_OBJECTNAME_CHARACTERS[BadCharacterIndex]),
                      BadCharacterIndex + 1)

\* the texts of the names that actors of the level come to bear
KnownNameTexts ==
    {ToString(NameEntry(b, k)) :
        b \in {<<"a">>, M2U_GENERATED_NAME,
                <<"G", "e", "n", "e", "r", "a", "t", "e", "d", "N", "a", "m", "e">>,
                <<"S", "t", "a", "t", "i", "c", "M", "e", "s", "h",
                  "A", "c", "t", "o", "r">>},
        k \in 0..(MaxActors + 2)}

\* the names made from the stripped candidates and known names, computed once
FNameTable ==
    [c \in {StripInvalid(x, 1) : x \in Candidates \cup KnownNameTexts} |-> ParseFName(c)]

\* FName( *GeneratedName )
MakeFName(s) == IF s \in DOMAIN FNameTable THEN FNameTable[s] ELSE ParseFName(s)

\* the stripped form of every candidate and known name, computed once
GeneratedNames == [c \in Candidates \cup KnownNameTexts |-> StripInvalid(c, 1)]

\* the loop that opens RenameActor and GetFreeName
GeneratedNameOf(Name) ==
    IF Name \in DOMAIN GeneratedNames THEN GeneratedNames[Name] ELSE StripInvalid(Name, 1)

\* ------------------------------------------------------------------ state
VARIABLES
    actors,      \* the current level: actor slot -> [fname, label] or NoActor
    xform,       \* actor slot -> relative transform and lighting-cache state
    pending,     \* client -> name obtained from GetFreeName and not yet used
    lastCall,    \* the call that produced this state, its inputs and its result
    dirty,       \* the level's package is marked as needing a save
    crashed      \* the editor process has aborted

vars == <<actors, xform, pending, lastCall, dirty, crashed>>

NoActor == [fname |-> NoFName, label |-> <<>>]

Exists(acts, id) == acts[id] # NoActor

\* ------------------------------------------------------- host primitives
\* objects of the level that are not actors managed here; slot 0 stands
\* for them in a lookup
LevelObjects ==
    {NameEntry(<<"a">>, 1)}

\* StaticFindObjectFastInternal( NULL, Outer, TestName ): the objects of the
\* level that bear the name (at most one)
StaticFindObjectFastInternal(acts, TestName) ==
    {i \in Ids : Exists(acts, i) /\ FNameEq(acts[i].fname, TestName)}
        \cup (IF \E o \in LevelObjects : FNameEq(o, TestName) THEN {0} ELSE {})

\* Actor->Rename( Name, NULL, REN_Test | ... ): refused when another object
\* of the level bears the name
RenameTest(acts, id, NameStr) ==
    StaticFindObjectFastInternal(acts, MakeFName(NameStr)) \subseteq {id}

\* Actor->Rename( Name, NULL, RenFlags ): the committing rename
RenameCommit(acts, id, NameStr) ==
    [acts EXCEPT ![id].fname = MakeFName(NameStr)]

\* Actor->SetActorLabel( Label ): sets the label, leaves the ID alone
SetActorLabel(acts, id, Label) == [acts EXCEPT ![id].label = Label]

\* --------------------------------------------------------------- records
Call(op, id, client, cand, target, ret, path, tested, committed, inUse) ==
    [op |-> op, id |-> id, client |-> client, cand |-> cand, target |-> target,
     ret |-> ret, path |-> path, tested |-> tested, committed |-> committed,
     inUse |-> inUse]

NoCall == Call("none", 0, "none", <<>>, NoFName, NoFName, "none", FALSE, FALSE, FALSE)

\* ------------------------------------------------------------ RenameActor
\* lines 141-144: NAME_None is replaced by the generated-name marker
SubstituteNone(NewFName) ==
    IF FNameEq(NewFName, NAME_None) THEN M2U_GENERATED_FNAME ELSE NewFName

\* lines 131-134: the name was stripped completely, the actor keeps its name
RenameEmpty(acts, id) ==
    [acts |-> acts, target |-> NoFName, ret |-> acts[id].fname, path |-> "empty",
     tested |-> FALSE, committed |-> FALSE]

\* lines 149-154: the new name and the current name are the same
RenameSame(acts, id, NewFName) ==
    [acts |-> acts, target |-> NewFName, ret |-> acts[id].fname, path |-> "same",
     tested |-> FALSE, committed |-> FALSE]

\* RenameRefused that still sets the label to the requested name
RenameRefused_SetsLabel(acts, id, NewFName) ==
    [acts |-> SetActorLabel(acts, id, ToString(NewFName)), target |-> NewFName,
     ret |-> acts[id].fname, path |-> "refused", tested |-> TRUE, committed |-> FALSE]

\* lines 163-167: the dry run was refused
RenameRefused(acts, id, NewFName) ==
    [acts |-> acts, target |-> NewFName, ret |-> acts[id].fname, path |-> "refused",
     tested |-> TRUE, committed |-> FALSE]

\* lines 161 and 169-174: commit, read the resulting name, set the label to it
RenameCommitted(acts, id, NewFName) ==
    LET renamed == RenameCommit(acts, id, ToString(NewFName))
        ResultFName == renamed[id].fname
    IN [acts |-> SetActorLabel(renamed, id, ToString(ResultFName)),
        target |-> NewFName, ret |-> ResultFName, path |-> "committed",
        tested |-> TRUE, committed |-> TRUE]

\* RenameActor without the same-name check of lines 149-154
RenameActorResult_NoSameCheck(acts, id, Name) ==
    LET GeneratedName == GeneratedNameOf(Name)
        NewFName == SubstituteNone(MakeFName(GeneratedName))
    IN IF GeneratedName = <<>> THEN RenameEmpty(acts, id)
       ELSE IF RenameTest(acts, id, ToString(NewFName))
            THEN RenameCommitted(acts, id, NewFName)
            ELSE RenameRefused(acts, id, NewFName)

\* FName RenameActor( AActor* Actor, const FString& Name ) as a function of
\* the level
RenameActorResult(acts, id, Name) ==
    LET GeneratedName == GeneratedNameOf(Name)
        NewFName == SubstituteNone(MakeFName(GeneratedName))
    IN IF GeneratedName = <<>> THEN RenameEmpty(acts, id)
       ELSE IF FNameEq(acts[id].fname, NewFName) THEN RenameSame(acts, id, NewFName)
       ELSE IF RenameTest(acts, id, ToString(NewFName))
            THEN RenameCommitted(acts, id, NewFName)
            ELSE RenameRefused(acts, id, NewFName)

\* ------------------------------------------------------------ GetFreeName
\* TestNameOf without the NAME_None check of lines 204-207
TestNameOf_NoSubstitute(GeneratedName) == MakeFName(GeneratedName)

\* lines 203-207: the first name probed
TestNameOf(GeneratedName) ==
    LET TestName == MakeFName(GeneratedName)
    IN IF FNameEq(TestName, NAME_None) THEN M2U_GENERATED_FNAME ELSE TestName

\* IncreaseSuffix stepping over a suffix
IncreaseSuffix_ByTwo(TestName) == SetNumber(TestName, GetNumber(TestName) + 2)

\* line 232: TestName.SetNumber( TestName.GetNumber() + 1 )
IncreaseSuffix(TestName) == SetNumber(TestName, GetNumber(TestName) + 1)

\* FreeNameLoop that increases the suffix once and does not probe again
FreeNameLoop_OneStep(acts, TestName) ==
    IF StaticFindObjectFastInternal(acts, TestName) = {} THEN TestName
    ELSE SetNumber(TestName, GetNumber(TestName) + 1)

\* lines 215-233: increase the suffix until there is no ExistingObject found
RECURSIVE FreeNameLoop(_, _)
FreeNameLoop(acts, TestName) ==
    IF StaticFindObjectFastInternal(acts, TestName) = {} THEN TestName
    ELSE FreeNameLoop(acts, IncreaseSuffix(TestName))

\* GetFreeName that returns the sanitized name without probing the level
GetFreeNameResult_NoProbe(acts, Name) == TestNameOf(GeneratedNameOf(Name))

\* FName GetFreeName( const FString& Name ) as a function of the level
GetFreeNameResult(acts, Name) ==
    FreeNameLoop(acts, TestNameOf(GeneratedNameOf(Name)))

\* --------------------------------------------------- AddNewActorFromAsset
MeshAsset == "/Game/Meshes/MyStaticMesh"

BlueprintAsset == "/Game/Blueprints/MyBlueprint"

SoundAsset == "/Game/Sounds/MySound"

MissingAsset == "/Game/Missing"

AssetPaths == {MeshAsset, BlueprintAsset, SoundAsset, MissingAsset}

NullAsset == "NULL"

\* GetAssetFromPath (m2uAssetHelper.h): the asset, or NULL when the path
\* does not resolve
GetAssetFromPath(AssetPath) ==
    IF AssetPath \in {MeshAsset, BlueprintAsset, SoundAsset} THEN AssetPath
    ELSE NullAsset

\* FName( TEXT("GeneratedName") )
GENERATED_FNAME ==
    NameEntry(<<"G", "e", "n", "e", "r", "a", "t", "e", "d", "N", "a", "m", "e">>, 0)

\* lines 330-333: NAME_None becomes "GeneratedName"
SpawnNameOf(Name) == IF FNameEq(Name, NAME_None) THEN GENERATED_FNAME ELSE Name

\* the class name the host numbers its own actor names from
HostClassName ==
    NameEntry(<<"S", "t", "a", "t", "i", "c", "M", "e", "s", "h",
                "A", "c", "t", "o", "r">>, 0)

\* MakeUniqueObjectName: the host numbers the actor's class name
RECURSIVE HostUniqueName(_, _)
HostUniqueName(acts, k) ==
    LET n == SetNumber(HostClassName, k)
    IN IF StaticFindObjectFastInternal(acts, n) = {} THEN n
       ELSE HostUniqueName(acts, k + 1)

FreeSlots(acts) == {i \in Ids : ~Exists(acts, i)}

\* FActorFactoryAssetProxy::AddActorForAsset: the names the host can give
\* the spawned actor; NoFName stands for "no actor was produced".  A mesh
\* actor receives the requested name when it is free, a blueprint actor
\* never does, a sound asset has no factory that yields an actor here.
AddActorForAsset(acts, Asset, Name) ==
    IF Asset = SoundAsset THEN {NoFName}
    ELSE IF Asset = BlueprintAsset THEN {HostUniqueName(acts, 1)}
    ELSE IF StaticFindObjectFastInternal(acts, Name) = {} THEN {Name}
    ELSE {HostUniqueName(acts, 1), NoFName}

DefaultTransform ==
    [loc |-> <<0, 0, 0>>, rot |-> <<0, 0, 0>>, scale |-> <<1, 1, 1>>,
     lightingValid |-> TRUE]

\* lines 324-326: the asset path does not resolve
AddNoAsset(acts) ==
    {[acts |-> acts, id |-> 0, ret |-> NoFName, path |-> "noasset", crashed |-> FALSE]}

\* line 338 on a NULL Actor: the call through the null pointer is undefined;
\* the build either faults or runs past it
AddNullActor(acts) ==
    {[acts |-> acts, id |-> 0, ret |-> NoFName, path |-> "nullactor", crashed |-> c] :
        c \in BOOLEAN}

\* AddSpawned without line 338: the spawned actor keeps the empty label
AddSpawned_NoLabel(acts, slot, SpawnedName) ==
    {[acts |-> [acts EXCEPT ![slot] = [fname |-> SpawnedName, label |-> <<>>]],
      id |-> slot, ret |-> SpawnedName, path |-> "created", crashed |-> FALSE]}

\* lines 334-340 on a spawned actor: the label is set to the name it got
AddSpawned(acts, slot, SpawnedName) ==
    LET spawned == [acts EXCEPT ![slot] = [fname |-> SpawnedName, label |-> <<>>]]
    IN {[acts |-> SetActorLabel(spawned, slot, ToString(spawned[slot].fname)),
         id |-> slot, ret |-> SpawnedName, path |-> "created", crashed |-> FALSE]}

\* AActor* AddNewActorFromAsset( AssetPath, InLevel, Name, ... ): the
\* outcomes it can have on the level
AddNewActorFromAssetResults(acts, AssetPath, Name) ==
    LET Asset == GetAssetFromPath(AssetPath)
    IN IF Asset = NullAsset THEN AddNoAsset(acts)
       ELSE UNION {IF n = NoFName THEN AddNullActor(acts)
                   ELSE AddSpawned(acts, CHOOSE i \in FreeSlots(acts) :
                                             \A j \in FreeSlots(acts) : i <= j, n) :
                   n \in AddActorForAsset(acts, Asset, SpawnNameOf(Name))}

\* ---------------------------------------- SetActorTransformRelativeFromText
\* FCString::Strfind( Str, "<c>=" ): position of the first occurrence of the
\* two-character marker, 0 when there is none
RECURSIVE StrfindFrom(_, _, _)
StrfindFrom(Str, c, i) ==
    IF i + 1 > Len(Str) THEN 0
    ELSE IF Str[i] = c /\ Str[i + 1] = "=" THEN i
    ELSE StrfindFrom(Str, c, i + 1)

Strfind(Str, c) == StrfindFrom(Str, c, 1)

\* FCString::Strchr( Stream, ' ' ): position of the next space, 0 when none
RECURSIVE Strchr(_, _)
Strchr(Str, i) ==
    IF i = 0 \/ i > Len(Str) THEN 0
    ELSE IF Str[i] = " " THEN i
    ELSE Strchr(Str, i + 1)

\* FCString::Atof( Stream ) on the whole numbers of the protocol: the value
\* of the digits Stream starts with
RECURSIVE AtofFrom(_, _, _)
AtofFrom(Str, i, acc) ==
    IF i = 0 \/ i > Len(Str) \/ ~IsDigit(Str[i]) THEN acc
    ELSE AtofFrom(Str, i + 1, 10 * acc + DigitVal(Str[i]))

Atof(Str, i) == AtofFrom(Str, i, 0)

\* GetFVECTORSpaceDelimited / GetFROTATORSpaceDelimited( Stream, Value ):
\* three numbers separated by single spaces, a missing one left at zero
GetSpaceDelimited(Str, Stream) ==
    LET s2 == Strchr(Str, Stream)
        s3 == IF s2 = 0 THEN 0 ELSE Strchr(Str, s2 + 1)
    IN <<Atof(Str, Stream),
         IF s2 = 0 THEN 0 ELSE Atof(Str, s2 + 1),
         IF s3 = 0 THEN 0 ELSE Atof(Str, s3 + 1)>>

\* lines 261-268: location, applied only when "T=" is found
ApplyLocation(x, Str) ==
    IF Strfind(Str, "T") # 0
    THEN [x EXCEPT !.loc = GetSpaceDelimited(Str, Strfind(Str, "T") + 3)]
    ELSE x

\* ApplyRotation that applies the unset local Rot when "R=" is missing
ApplyRotation_Always(x, Str) ==
    [x EXCEPT !.rot = IF Strfind(Str, "R") # 0
                      THEN GetSpaceDelimited(Str, Strfind(Str, "R") + 3)
                      ELSE <<0, 0, 0>>]

\* lines 270-278: rotation, applied only when "R=" is found
ApplyRotation(x, Str) ==
    IF Strfind(Str, "R") # 0
    THEN [x EXCEPT !.rot = GetSpaceDelimited(Str, Strfind(Str, "R") + 3)]
    ELSE x

\* lines 280-288: scale, applied only when "S=" is found
ApplyScale(x, Str) ==
    IF Strfind(Str, "S") # 0
    THEN [x EXCEPT !.scale = GetSpaceDelimited(Str, Strfind(Str, "S") + 3)]
    ELSE x

\* line 290: Actor->InvalidateLightingCache()
InvalidateLightingCache(x) == [x EXCEPT !.lightingValid = FALSE]

\* void SetActorTransformRelativeFromText( Actor, Str ) on the actor's
\* transform record
TransformFromText(x, Str) ==
    InvalidateLightingCache(ApplyScale(ApplyRotation(ApplyLocation(x, Str), Str), Str))

\* ---------------------------------------------------------------- actions
RenameActor(id, Name) ==
    /\ ~crashed
    /\ Exists(actors, id)
    /\ LET r == RenameActorResult(actors, id, Name)
       IN /\ actors' = r.acts
          /\ dirty' = (dirty \/ r.committed)
          /\ lastCall' = Call("RenameActor", id, "none", Name, r.target, r.ret,
                              r.path, r.tested, r.committed, FALSE)
    /\ UNCHANGED <<xform, pending, crashed>>

GetFreeName(client, Name) ==
    /\ ~crashed
    /\ LET Result == GetFreeNameResult(actors, Name)
       IN /\ pending' = [pending EXCEPT ![client] = Result]
          /\ lastCall' = Call("GetFreeName", 0, client, Name,
                              TestNameOf(GeneratedNameOf(Name)), Result,
                              "free", FALSE, FALSE, FALSE)
    /\ UNCHANGED <<actors, xform, dirty, crashed>>

\* the caller passes the name it got from GetFreeName, or nothing (NAME_None)
NameArgument(client) ==
    IF pending[client] = NoFName THEN NAME_None ELSE pending[client]

AddNewActorFromAsset(client, AssetPath) ==
    /\ ~crashed
    /\ FreeSlots(actors) # {} \/ GetAssetFromPath(AssetPath) \in {NullAsset, SoundAsset}
    /\ \E r \in AddNewActorFromAssetResults(actors, AssetPath, NameArgument(client)) :
          /\ actors' = r.acts
          /\ xform' = IF r.id # 0 THEN [xform EXCEPT ![r.id] = DefaultTransform]
                      ELSE xform
          /\ dirty' = (dirty \/ r.id # 0)
          /\ crashed' = r.crashed
          /\ lastCall' = Call("AddNewActorFromAsset", r.id, client, <<AssetPath>>,
                              SpawnNameOf(NameArgument(client)), r.ret, r.path,
                              FALSE, FALSE,
                              StaticFindObjectFastInternal(actors,
                                  SpawnNameOf(NameArgument(client))) # {})
    /\ pending' = [pending EXCEPT ![client] = NoFName]

SetActorTransformRelativeFromText(id, Str) ==
    /\ ~crashed
    /\ Exists(actors, id)
    /\ xform' = [xform EXCEPT ![id] = TransformFromText(xform[id], Str)]
    /\ dirty' = TRUE
    /\ lastCall' = Call("SetActorTransformRelativeFromText", id, "none", Str,
                        NoFName, NoFName, "transform", FALSE, FALSE, FALSE)
    /\ UNCHANGED <<actors, pending, crashed>>

\* ---------------------------------------------------------- specifications
Synced(a) == a.label = ToString(a.fname)

ActorA == [fname |-> MakeFName(<<"a">>), label |-> <<"a">>]

ActorB == [fname |-> MakeFName(<<"b">>), label |-> <<"b">>]

InitRest ==
    /\ xform = [i \in Ids |-> DefaultTransform]
    /\ pending = [c \in Clients |-> NoFName]
    /\ lastCall = NoCall
    /\ dirty = FALSE
    /\ crashed = FALSE

\* a level holding one actor whose label mirrors its name
Init ==
    /\ actors = [i \in Ids |-> IF i = 1 THEN ActorA ELSE NoActor]
    /\ InitRest

\* the text of the name the actor bears now
CurrentName(id) == IF Exists(actors, id) THEN {ToString(actors[id].fname)} ELSE {}

Next ==
    \/ \E id \in Ids : \E Name \in Candidates \cup CurrentName(id) : RenameActor(id, Name)
    \/ \E client \in Clients, Name \in Candidates : GetFreeName(client, Name)
    \/ \E client \in Clients, AssetPath \in AssetPaths :
          AddNewActorFromAsset(client, AssetPath)

Spec == Init /\ [][Next]_vars

\* a level whose one actor was labelled by the user in the editor: the host
\* lets a label differ from the name
InitAnyLabel ==
    /\ \E l \in {<<"a">>, <<"M", "y", " ", "a">>} :
          actors = [i \in Ids |-> IF i = 1 THEN [ActorA EXCEPT !.label = l] ELSE NoActor]
    /\ InitRest

SpecAnyLabel == InitAnyLabel /\ [][Next]_vars

\* -------------------------------------------------- the transform protocol
Absent == <<>>

\* the patches a sender encodes: each field absent or one of a few vectors
Patches ==
    [T : {Absent, <<1, 2, 3>>, <<0, 0, 7>>},
     R : {Absent, <<10, 20, 30>>},
     S : {Absent, <<2, 2, 2>>}]

EncodeMarker(c, v) ==
    IF v = Absent THEN <<>>
    ELSE <<c, "=", "(">> \o IntToString(v[1]) \o <<" ">> \o IntToString(v[2])
             \o <<" ">> \o IntToString(v[3]) \o <<")">>

JoinText(a, b) == IF a = <<>> THEN b ELSE IF b = <<>> THEN a ELSE a \o <<" ">> \o b

\* "T=(x y z) R=(x y z) S=(x y z)", the markers in either order
TextOf(p, order) ==
    IF order = "TRS"
    THEN JoinText(EncodeMarker("T", p.T),
                  JoinText(EncodeMarker("R", p.R), EncodeMarker("S", p.S)))
    ELSE JoinText(EncodeMarker("S", p.S),
                  JoinText(EncodeMarker("R", p.R), EncodeMarker("T", p.T)))

Orders == {"TRS", "SRT"}

Texts == {TextOf(p, o) : p \in Patches, o \in Orders}

\* a level holding two actors, for the transform decoder
InitTransform ==
    /\ MaxActors >= 2
    /\ actors = [i \in Ids |-> IF i = 1 THEN ActorA ELSE IF i = 2 THEN ActorB ELSE NoActor]
    /\ InitRest

NextTransform ==
    \E id \in Ids, Str \in Texts : SetActorTransformRelativeFromText(id, Str)

SpecTransform == InitTransform /\ [][NextTransform]_vars

\* ----------------------------------------------------------------- claims
IsRename(c) == c.op = "RenameActor"

IsFree(c) == c.op = "GetFreeName"

IsAdd(c) == c.op = "AddNewActorFromAsset"

IsTransform(c) == c.op = "SetActorTransformRelativeFromText"

\* C1: when RenameActor returns, on any of its return paths and whatever the
\* label was before, the actor's label is the text of its name.
C1_LabelSyncedOnReturn ==
    IsRename(lastCall) => Synced(actors[lastCall.id])

\* C2: from a level whose actors all have label = text of name, every actor
\* of the level, the newly created ones included, still has label = text of
\* name after any sequence of RenameActor, GetFreeName and
\* AddNewActorFromAsset calls.
C2_AllSynced ==
    \A i \in Ids : Exists(actors, i) => Synced(actors[i])

\* an actor created under a name from GetFreeName, next to a renamed one
C2_Witness ==
    /\ IsAdd(lastCall) /\ lastCall.path = "created"
    /\ lastCall.target # GENERATED_FNAME
    /\ lastCall.ret = lastCall.target
    /\ \E i \in Ids : Exists(actors, i) /\ actors[i].fname = M2U_GENERATED_FNAME

\* the candidate strips to nothing, or to the host's "None"
StripsToEmpty(Name) == GeneratedNameOf(Name) = <<>>

StripsToNone(Name) == ToLower(GeneratedNameOf(Name)) = <<"n", "o", "n", "e">>

\* C3 as stated: in RenameActor and in GetFreeName alike, a candidate that
\* strips to nothing or to "None" is replaced by m2uGeneratedName, which is
\* the name then requested or probed, and no empty name is returned.
C3_MarkerInBoth ==
    ((IsRename(lastCall) \/ IsFree(lastCall))
        /\ (StripsToEmpty(lastCall.cand) \/ StripsToNone(lastCall.cand)))
    => (lastCall.target = M2U_GENERATED_FNAME /\ lastCall.ret.base # <<>>)

\* C3 amended: GetFreeName probes m2uGeneratedName for a candidate that
\* strips to nothing or to "None"; RenameActor requests m2uGeneratedName
\* from the host for a candidate that strips to "None" (unless the actor
\* bears that name already), but for a candidate that strips to nothing it
\* requests no rename and returns the actor's current name; no empty name
\* is used or returned.
C3_MarkerExceptEmptyRename ==
    /\ (IsFree(lastCall) /\ (StripsToEmpty(lastCall.cand) \/ StripsToNone(lastCall.cand)))
          => (lastCall.target = M2U_GENERATED_FNAME
              /\ lastCall.ret.cmp = ToLower(M2U_GENERATED_NAME))
    /\ (IsRename(lastCall) /\ StripsToNone(lastCall.cand))
          => (lastCall.target = M2U_GENERATED_FNAME
              /\ (lastCall.tested \/ FNameEq(lastCall.ret, M2U_GENERATED_FNAME)))
    /\ (IsRename(lastCall) /\ StripsToEmpty(lastCall.cand))
          => (lastCall.target = NoFName /\ ~lastCall.tested /\ ~lastCall.committed
              /\ lastCall.ret = actors[lastCall.id].fname)
    /\ (IsRename(lastCall) \/ IsFree(lastCall)) => lastCall.ret.base # <<>>

\* GetFreeName has handed out the marker, an actor was renamed to it through
\* "None", and a RenameActor with a candidate of forbidden characters only
\* has just returned
C3_Witness ==
    /\ IsRename(lastCall) /\ StripsToEmpty(lastCall.cand)
    /\ \E c \in Clients : pending[c].cmp = ToLower(M2U_GENERATED_NAME)
    /\ \E i \in Ids : Exists(actors, i) /\ actors[i].fname = M2U_GENERATED_FNAME

\* the host refused the dry run of the call that made this step
Refused(c, acts) ==
    IsRename(c) /\ c.tested /\ ~RenameTest(acts, c.id, ToString(c.target))

\* C4: when the host refuses the dry run, RenameActor commits no rename,
\* returns the actor's prior name and leaves the name and label of every
\* object of the level as they were.
C4_RefusedChangesNothing ==
    [][Refused(lastCall', actors)
         => (/\ ~lastCall'.committed
             /\ lastCall'.ret = actors[lastCall'.id].fname
             /\ actors' = actors)]_vars

C4_Witness ==
    /\ Refused(lastCall, actors)
    /\ \E i \in Ids : Exists(actors, i) /\ FNameEq(actors[i].fname, lastCall.target)

\* C5: RenameActor(o, text of o's current name) returns o's current name,
\* issues neither a dry run nor a commit and changes no name; and repeating
\* any RenameActor call with the same candidate leaves the level as the
\* first call left it.
C5_IdempotentOnCurrentName ==
    [][IsRename(lastCall')
         => (/\ (lastCall'.cand = ToString(actors[lastCall'.id].fname))
                   => (/\ lastCall'.ret = actors[lastCall'.id].fname
                       /\ ~lastCall'.tested /\ ~lastCall'.committed
                       /\ \A i \in Ids : actors'[i].fname = actors[i].fname)
             /\ RenameActorResult(actors', lastCall'.id, lastCall'.cand).acts = actors')]_vars

\* RenameActor was called with the text of a numbered current name
C5_Witness ==
    /\ IsRename(lastCall)
    /\ lastCall.cand = ToString(actors[lastCall.id].fname)
    /\ lastCall.path = "same"
    /\ actors[lastCall.id].fname.num > 0

\* no character of the text is forbidden in an object name
IsValidObjectName(str) ==
    \A i \in 1..Len(str) :
        \A j \in 1..Len(INVALID_OBJECTNAME_CHARACTERS) :
            str[i] # INVALID_OBJECTNAME_CHARACTERS[j]

\* C6: the name GetFreeName returns holds no forbidden character and names
\* no object of the level at the instant of return; when the sanitized
\* candidate names an existing object, it is not the name returned.
C6_FreeAndValid ==
    IsFree(lastCall)
    => (/\ IsValidObjectName(ToString(lastCall.ret))
        /\ StaticFindObjectFastInternal(actors, lastCall.ret) = {}
        /\ StaticFindObjectFastInternal(actors, MakeFName(GeneratedNameOf(lastCall.cand))) # {}
              => ~FNameEq(lastCall.ret, MakeFName(GeneratedNameOf(lastCall.cand))))

\* the candidate held a forbidden character and its sanitized form was taken
C6_Witness ==
    /\ IsFree(lastCall)
    /\ ~IsValidObjectName(lastCall.cand)
    /\ StaticFindObjectFastInternal(actors, MakeFName(GeneratedNameOf(lastCall.cand))) # {}
    /\ lastCall.ret.num > lastCall.target.num

\* C7: GetFreeName returns the base name of the sanitized candidate with the
\* smallest suffix, not below the one embedded in the candidate, that is
\* unused in the level: probing starts at the embedded suffix, every suffix
\* between it and the one returned is in use, the base name is kept and no
\* object is changed.
C7_SmallestFreeSuffix ==
    [][IsFree(lastCall')
         => (/\ actors' = actors
             /\ (lastCall'.cand = <<"a", "#", "_", "0">>)
                   => lastCall'.target = NameEntry(<<"a">>, 1)
             /\ (lastCall'.cand = <<"a">>) => lastCall'.target = NameEntry(<<"a">>, 0)
             /\ lastCall'.ret.base = lastCall'.target.base
             /\ lastCall'.ret.num >= lastCall'.target.num
             /\ StaticFindObjectFastInternal(actors, lastCall'.ret) = {}
             /\ \A k \in lastCall'.target.num .. (lastCall'.ret.num - 1) :
                    StaticFindObjectFastInternal(actors, SetNumber(lastCall'.target, k)) # {})]_vars

\* a candidate with an embedded suffix whose next two names were taken
C7_Witness ==
    /\ IsFree(lastCall)
    /\ lastCall.cand = <<"a", "#", "_", "0">>
    /\ lastCall.ret.num >= lastCall.target.num + 2

\* C8: the name GetFreeName returns is free in the level when it returns,
\* and GetFreeName changes no object; a name a client holds can come into
\* use while the client still holds it, before it creates its actor, only
\* through another call: a RenameActor or another client's
\* AddNewActorFromAsset.
C8_FreeOnlyAtReturn ==
    [][/\ IsFree(lastCall')
            => (/\ actors' = actors
                /\ StaticFindObjectFastInternal(actors', pending'[lastCall'.client]) = {})
       /\ \A c \in Clients :
            (/\ pending[c] # NoFName
             /\ pending'[c] = pending[c]
             /\ StaticFindObjectFastInternal(actors, pending[c]) = {}
             /\ StaticFindObjectFastInternal(actors', pending[c]) # {})
            => (IsRename(lastCall') \/ (IsAdd(lastCall') /\ lastCall'.client # c))]_vars

\* a client creates its actor with a name from GetFreeName that has come
\* into use since
C8_Witness ==
    /\ IsAdd(lastCall)
    /\ lastCall.inUse
    /\ lastCall.target # GENERATED_FNAME

\* C9: SetActorTransformRelativeFromText sets each of location, rotation and
\* scale of the target actor to the encoded value when its marker is in the
\* text, leaves it as it was when the marker is missing, and changes no
\* other actor's transform.
C9_AppliesPresentMarkersOnly ==
    [][IsTransform(lastCall')
         => \A p \in Patches, o \in Orders :
              (lastCall'.cand = TextOf(p, o))
              => (/\ xform'[lastCall'.id].loc =
                        IF p.T # Absent THEN p.T ELSE xform[lastCall'.id].loc
                  /\ xform'[lastCall'.id].rot =
                        IF p.R # Absent THEN p.R ELSE xform[lastCall'.id].rot
                  /\ xform'[lastCall'.id].scale =
                        IF p.S # Absent THEN p.S ELSE xform[lastCall'.id].scale
                  /\ \A j \in Ids : j # lastCall'.id => xform'[j] = xform[j])]_vars

\* "T=(1 2 3)" applied to an actor whose rotation was (10,20,30)
C9_Witness ==
    /\ IsTransform(lastCall)
    /\ lastCall.cand = TextOf([T |-> <<1, 2, 3>>, R |-> Absent, S |-> Absent], "TRS")
    /\ xform[lastCall.id].loc = <<1, 2, 3>>
    /\ xform[lastCall.id].rot = <<10, 20, 30>>

\* C10: whenever AddNewActorFromAsset produces no actor, it returns none
\* without aborting and the level is unchanged.
C10_NoActorNoAbort ==
    [][(IsAdd(lastCall') /\ lastCall'.ret = NoFName)
         => (~crashed' /\ actors' = actors)]_vars

====
